---- MODULE Spec2Model ----
(***************************************************************************)
(* State-machine model of adk_test/agent.py: the module-level script       *)
(* (credential guard, constants, the two toolsets, the agent), the         *)
(* coroutine run_combined_example with setup_session_and_runner, and       *)
(* call_combined_agent_async with its loop over the runner's event stream. *)
(* The external runtime (runner, session service, toolset constructors)    *)
(* is opaque: what it yields or raises is a nondeterministic input.        *)
(***************************************************************************)
EXTENDS Integers, Sequences, FiniteSets, TLC

\* Longest event stream the runner yields for one prompt in the model.
MaxEvents == 2

\* Python's None, and a present value, as a sequence of length 0 or 1.
None == <<>>
Some(x) == <<x>>

(***************************************************************************)
(* Environment and credential guard (lines 32-42).                         *)
(***************************************************************************)

\* Values GOOGLE_API_KEY can have in the process environment or the .env
\* file: unset, set to the empty string, set to a key.
KeyValues == {None, Some(""), Some("k")}

\* load_dotenv() with its default override=False: a variable already in the
\* process environment (even empty) is kept, otherwise the file's value is used.
load_dotenv(env, file) == IF env # None THEN env ELSE file

\* Python truthiness of an optional string: None and "" are falsy.
Truthy(v) == v # None /\ v[1] # ""

KeyMissingMutant(key) == key = None
\* `if not google_api_key:` (line 38).
KeyMissing(key) == ~Truthy(key)

\* Exceptions are records of their class and their message, the message a
\* sequence of text fragments.
ValueErrorNoKey ==
  [cls |-> "ValueError",
   msg |-> <<"GOOGLE_API_KEY no encontrada en las variables de entorno. ",
             "Asegúrate de que esté definida en tu archivo .env">>]

(***************************************************************************)
(* Constants (lines 45-49).                                                *)
(***************************************************************************)
APP_NAME == "combined_openapi_mcp_app"
USER_ID == "user_combined_1"
AGENT_NAME == "combined_assistant_agent"
GEMINI_MODEL == "gemini-2.5-flash"

\* The values uuid.uuid4() can return, as the session ids built from them.
SessionIds == {"session_combined_u1", "session_combined_u2"}

(***************************************************************************)
(* The embedded OpenAPI document (lines 55-749), reduced to what carries   *)
(* references: each operation and each component schema with the $ref      *)
(* values that occur inside it, in document order.  A $ref value           *)
(* "#/components/schemas/X" is the sequence of its "/"-separated segments. *)
(***************************************************************************)
Ref(name) == <<"#", "components", "schemas", name>>

OpenApiPaths ==
  ("/users" :>
      ("get" :> <<Ref("UsersListResponse")>> @@
       "post" :> <<Ref("CreateUserRequest"), Ref("CreateUserResponse")>>)) @@
  ("/users/{id}" :>
      ("get" :> <<Ref("SingleUserResponse"), Ref("ErrorResponse")>> @@
       "put" :> <<Ref("UpdateUserRequest"), Ref("UpdateUserResponse")>> @@
       "patch" :> <<Ref("UpdateUserRequest"), Ref("UpdateUserResponse")>> @@
       "delete" :> <<>>)) @@
  ("/unknown" :>
      ("get" :> <<Ref("ResourcesListResponse")>>)) @@
  ("/unknown/{id}" :>
      ("get" :> <<Ref("SingleResourceResponse"), Ref("ErrorResponse")>>)) @@
  ("/register" :>
      ("post" :> <<Ref("RegisterRequest"), Ref("RegisterResponse"),
                   Ref("ErrorResponse")>>)) @@
  ("/login" :>
      ("post" :> <<Ref("LoginRequest"), Ref("LoginResponse"),
                   Ref("ErrorResponse")>>)) @@
  ("/users/{delay}" :>
      ("get" :> <<Ref("UsersListResponse")>>))

OpenApiSchemasMutant ==
  "User" :> <<>> @@
  "Resource" :> <<>> @@
  "UsersListResponse" :> <<Ref("User"), Ref("Support")>> @@
  "SingleUserResponse" :> <<Ref("User"), Ref("Support")>> @@
  "ResourcesListResponse" :> <<Ref("Resource"), Ref("Support")>> @@
  "SingleResourceResponse" :> <<Ref("Resource"), Ref("Support")>> @@
  "CreateUserRequest" :> <<>> @@
  "CreateUserResponse" :> <<>> @@
  "UpdateUserRequest" :> <<>> @@
  "UpdateUserResponse" :> <<>> @@
  "RegisterRequest" :> <<>> @@
  "RegisterResponse" :> <<>> @@
  "LoginRequest" :> <<>> @@
  "LoginResponse" :> <<>> @@
  "ErrorResponse" :> <<>>
\* components/schemas (lines 469-746): schema name -> the $ref values in it.
OpenApiSchemas ==
  "User" :> <<>> @@
  "Resource" :> <<>> @@
  "Support" :> <<>> @@
  "UsersListResponse" :> <<Ref("User"), Ref("Support")>> @@
  "SingleUserResponse" :> <<Ref("User"), Ref("Support")>> @@
  "ResourcesListResponse" :> <<Ref("Resource"), Ref("Support")>> @@
  "SingleResourceResponse" :> <<Ref("Resource"), Ref("Support")>> @@
  "CreateUserRequest" :> <<>> @@
  "CreateUserResponse" :> <<>> @@
  "UpdateUserRequest" :> <<>> @@
  "UpdateUserResponse" :> <<>> @@
  "RegisterRequest" :> <<>> @@
  "RegisterResponse" :> <<>> @@
  "LoginRequest" :> <<>> @@
  "LoginResponse" :> <<>> @@
  "ErrorResponse" :> <<>>

openapi_spec_string ==
  [openapi |-> "3.0.3",
   paths |-> OpenApiPaths,
   components |-> [schemas |-> OpenApiSchemas]]

\* Every $ref value that occurs in document doc, in paths and in schemas.
AllRefs(doc) ==
  UNION {UNION {{doc.paths[p][m][k] : k \in DOMAIN doc.paths[p][m]} :
                   m \in DOMAIN doc.paths[p]} : p \in DOMAIN doc.paths}
  \cup
  UNION {{doc.components.schemas[n][k] : k \in DOMAIN doc.components.schemas[n]} :
            n \in DOMAIN doc.components.schemas}

\* Following a reference from the document root: "#", then one key per segment.
Resolves(doc, ref) ==
  /\ Len(ref) = 4
  /\ ref[1] = "#"
  /\ ref[2] \in DOMAIN doc
  /\ ref[2] = "components"
  /\ ref[3] \in DOMAIN doc.components
  /\ ref[4] \in DOMAIN doc.components.schemas

(***************************************************************************)
(* Toolsets and agent (lines 753-798).                                     *)
(***************************************************************************)
\* os.path.join(dirname, "/home/...") with an absolute second argument is
\* that second argument; os.path.abspath leaves it as it is.
TARGET_FOLDER_PATH == "/home/cetec/AIProjects/adk_openapi/adk_test"

\* The module-level string a name refers to.
StringNamed(name) == CASE name = "openapi_spec_string" -> openapi_spec_string

\* OpenAPIToolset(spec_str=openapi_spec_string, spec_str_type='json'): the
\* toolset holds the module's string, kept here by its name.
OpenAPIToolset ==
  [toolset |-> "OpenAPIToolset",
   spec_str |-> "openapi_spec_string",
   spec_str_type |-> "json"]

\* MCPToolset(connection_params=StdioConnectionParams(server_params=...)).
MCPToolset ==
  [toolset |-> "MCPToolset",
   command |-> "npx",
   args |-> <<"-y", "@modelcontextprotocol/server-filesystem", TARGET_FOLDER_PATH>>]

AgentToolsMutant(users, filesystem) == <<users>>
\* tools=[users_toolset, filesystem_toolset] (line 775).
AgentTools(users, filesystem) == <<users, filesystem>>

\* LlmAgent(name=AGENT_NAME, model=GEMINI_MODEL, tools=[...], ...).
LlmAgent(users, filesystem) ==
  [name |-> AGENT_NAME,
   model |-> GEMINI_MODEL,
   tools |-> AgentTools(users, filesystem)]

(***************************************************************************)
(* The demo loop (lines 847-863) and one prompt (lines 816-844).           *)
(***************************************************************************)
PromptsMutant ==
  <<"Show me available pets in the store",
    "Add a new cat named 'Whiskers' to the store",
    "Get details for pet ID 456",
    "List the files in the current directory",
    "Create a pet named 'Buddy' and then show me what files I have">>
\* The query strings of run_combined_example, in call order.
Prompts ==
  <<"Show me available pets in the store",
    "Add a new cat named 'Whiskers' to the store",
    "Get details for pet ID 456",
    "List the files in the current directory",
    "What files are available to read?",
    "Create a pet named 'Buddy' and then show me what files I have">>

NPrompts == Len(Prompts)

\* The section banner printed before prompt k, if any (lines 851, 857, 862).
Banner(k) ==
  CASE k = 1 -> <<"=== TESTING PET STORE API ===">>
    [] k = 4 -> <<"=== TESTING FILESYSTEM ===">>
    [] k = 6 -> <<"=== TESTING MIXED FUNCTIONALITY ===">>
    [] OTHER -> <<>>

ContentMutant(query) == [role |-> "user", parts |-> <<[text |-> query], [text |-> query]>>]
\* types.Content(role='user', parts=[types.Part(text=query)]) (line 820).
Content(query) == [role |-> "user", parts |-> <<[text |-> query]>>]

\* final_response_text's initial value (line 821), as its characters.
DefaultFinalText ==
  <<"A", "g", "e", "n", "t", " ", "d", "i", "d", " ", "n", "o", "t", " ",
    "p", "r", "o", "v", "i", "d", "e", " ", "a", " ", "f", "i", "n", "a", "l", " ",
    "t", "e", "x", "t", " ", "r", "e", "s", "p", "o", "n", "s", "e", ".">>

\* str.strip() removes the leading and trailing characters for which
\* str.isspace() holds.  A character is a one-character string; those with
\* no spelling in a string are named: VT is \x0b, FS GS RS US are
\* \x1c-\x1f, NEL is \x85, NBSP is \xa0, and the rest are the Unicode
\* spaces U+1680, U+2000-U+200A, U+2028, U+2029, U+202F, U+205F, U+3000.
Whitespace ==
  {" ", "\t", "\n", "\r", "\f", "VT", "FS", "GS", "RS", "US", "NEL", "NBSP",
   "OGHAM", "ENQUAD", "EMQUAD", "ENSP", "EMSP", "THREEPEREMSP", "FOURPEREMSP",
   "SIXPEREMSP", "FIGURESP", "PUNCTSP", "THINSP", "HAIRSP", "LSEP", "PSEP",
   "NNBSP", "MMSP", "IDEOGRAPHICSP"}

RECURSIVE LStrip(_)
LStrip(s) == IF s # <<>> /\ Head(s) \in Whitespace THEN LStrip(Tail(s)) ELSE s

RECURSIVE RStrip(_)
RStrip(s) ==
  IF s # <<>> /\ s[Len(s)] \in Whitespace THEN RStrip(SubSeq(s, 1, Len(s) - 1)) ELSE s

StripMutant(s) == LStrip(s)
Strip(s) == RStrip(LStrip(s))

\* One printed line: what kind of line it is and the values formatted into it.
Line(kind, arg) == [kind |-> kind, arg |-> arg]

(***************************************************************************)
(* What the runner can yield.  An event is what the script reads off it:   *)
(* get_function_calls(), get_function_responses(), is_final_response() and *)
(* content (None, or its parts; a part's text is None or characters).      *)
(***************************************************************************)
ToolCalls == {<<>>, <<[name |-> "get_users", args |-> "{}"]>>}
ToolResponses == {<<>>, <<[name |-> "get_users"]>>}
Texts == {None, Some(<<"\f", "a", " ">>), Some(<<"b">>)}
Contents ==
  {None, Some([parts |-> <<>>])} \cup {Some([parts |-> <<[text |-> t]>>]) : t \in Texts}

\* A content whose only part carries text.
TextContent(t) == Some([parts |-> <<[text |-> t]>>])

\* The events the model draws from. An event without tool data takes every
\* content when it is final and one content when it is not. The loop body
\* reads neither the content nor the final flag of an event with tool data:
\* such an event is final when it has calls only or responses only, and is
\* not when it has both.
Events ==
  {e \in [function_calls : ToolCalls, function_responses : ToolResponses,
          final : BOOLEAN, content : Contents] :
     /\ (e.function_calls # <<>> \/ e.function_responses # <<>>)
           => /\ e.content = TextContent(Some(<<"b">>))
              /\ e.final <=> (e.function_calls = <<>> \/ e.function_responses = <<>>)
     /\ (e.function_calls = <<>> /\ e.function_responses = <<>> /\ ~e.final)
           => e.content = TextContent(Some(<<"b">>))}

\* `event.content and event.content.parts` (line 835).
HasParts(e) == e.content # None /\ e.content[1].parts # <<>>

\* Exception classes that `except Exception` (line 840) catches.
IsException(e) == e.cls \in {"Exception", "AttributeError", "RuntimeError", "ValueError"}

AttributeErrorStrip ==
  [cls |-> "AttributeError", msg |-> <<"'NoneType' object has no attribute 'strip'">>]

LoopMessage == "cannot be called from a running event loop"

\* What the runner's stream can raise while it is consumed.
StreamErrors ==
  {[cls |-> "Exception", msg |-> <<"tool failed">>],
   [cls |-> "RuntimeError", msg |-> <<"asyncio.run() ", LoopMessage>>],
   [cls |-> "KeyboardInterrupt", msg |-> <<>>]}

\* What Runner(...) or create_session(...) can raise.
SetupErrors ==
  {[cls |-> "Exception", msg |-> <<"session store failed">>],
   [cls |-> "RuntimeError", msg |-> <<"asyncio.run() ", LoopMessage>>],
   [cls |-> "RuntimeError", msg |-> <<"Event loop is closed">>]}

IsLoopErrorMutant(e) == e.cls = "RuntimeError"
\* `"cannot be called from a running event loop" in str(e)` (line 871).
IsLoopError(e) ==
  e.cls = "RuntimeError" /\ \E k \in DOMAIN e.msg : e.msg[k] = LoopMessage

(***************************************************************************)
(* State.                                                                  *)
(***************************************************************************)
VARIABLES
  pc,                  \* where the script is
  environ,             \* os.environ['GOOGLE_API_KEY']: None, or Some(value)
  google_api_key,      \* the module variable (line 35)
  exc,                 \* the exception propagating out of the current frame
  SESSION_ID,          \* the module constant (line 47); None until assigned
  users_toolset,       \* line 753
  filesystem_toolset,  \* line 759
  root_agent,          \* line 772
  session_service,     \* the InMemorySessionService, once constructed
  sessions,            \* the create_session calls the store has served
  runner,              \* the Runner, once constructed
  i,                   \* which call of run_combined_example is current
  query,               \* call_combined_agent_async's argument
  content,             \* its local `content`
  final_response_text, \* its local `final_response_text`
  caught,              \* the exception bound to `e` in a handler
  events,              \* the events the current call has taken from the stream
  open,                \* prompts whose event stream is started and not finished
  submitted,           \* the runner.run_async calls made, in order
  raised,              \* prompts whose processing raised an Exception
  out,                 \* lines the current call has printed
  console              \* lines the script has printed outside the calls

vars ==
  <<pc, environ, google_api_key, exc, SESSION_ID, users_toolset, filesystem_toolset,
    root_agent, session_service, sessions, runner, i, query, content,
    final_response_text, caught, events, open, submitted, raised, out, console>>

moduleVars ==
  <<google_api_key, SESSION_ID, users_toolset, filesystem_toolset, root_agent>>
setupVars == <<session_service, sessions, runner>>
callVars == <<i, query, content, final_response_text, caught, events, out>>
historyVars == <<open, submitted, raised>>

Init ==
  /\ pc = "load_dotenv"
  /\ environ \in KeyValues
  /\ google_api_key = None
  /\ exc = None
  /\ SESSION_ID = None
  /\ users_toolset = None
  /\ filesystem_toolset = None
  /\ root_agent = None
  /\ session_service = None
  /\ sessions = <<>>
  /\ runner = None
  /\ i = 0
  /\ query = None
  /\ content = None
  /\ final_response_text = None
  /\ caught = None
  /\ events = <<>>
  /\ open = {}
  /\ submitted = <<>>
  /\ raised = {}
  /\ out = <<>>
  /\ console = <<>>

(***************************************************************************)
(* The module-level script.                                                *)
(***************************************************************************)
\* Line 32: the .env file holds any of the values the variable can have.
LoadDotenv ==
  /\ pc = "load_dotenv"
  /\ \E file \in KeyValues : environ' = load_dotenv(environ, file)
  /\ pc' = "check_key"
  /\ UNCHANGED <<exc, console>>
  /\ UNCHANGED <<moduleVars, setupVars, callVars, historyVars>>

\* Lines 35-42: read the key, raise if it is missing, else write it back.
CheckKey ==
  /\ pc = "check_key"
  /\ google_api_key' = environ
  /\ IF KeyMissing(environ)
       THEN /\ exc' = Some(ValueErrorNoKey)
            /\ pc' = "raised"
            /\ UNCHANGED environ
       ELSE /\ environ' = environ
            /\ pc' = "constants"
            /\ UNCHANGED exc
  /\ UNCHANGED <<SESSION_ID, users_toolset, filesystem_toolset, root_agent, console>>
  /\ UNCHANGED <<setupVars, callVars, historyVars>>

\* Lines 45-49: SESSION_ID is built once from a fresh uuid4.
DeclareConstants ==
  /\ pc = "constants"
  /\ \E sid \in SessionIds : SESSION_ID' = Some(sid)
  /\ pc' = "users_toolset"
  /\ UNCHANGED <<environ, google_api_key, exc, users_toolset, filesystem_toolset,
                 root_agent, console>>
  /\ UNCHANGED <<setupVars, callVars, historyVars>>

\* Lines 753-756.
CreateUsersToolset ==
  /\ pc = "users_toolset"
  /\ users_toolset' = Some(OpenAPIToolset)
  /\ pc' = "filesystem_toolset"
  /\ UNCHANGED <<environ, google_api_key, exc, SESSION_ID, filesystem_toolset,
                 root_agent, console>>
  /\ UNCHANGED <<setupVars, callVars, historyVars>>

\* Lines 759-770.
CreateFilesystemToolset ==
  /\ pc = "filesystem_toolset"
  /\ filesystem_toolset' = Some(MCPToolset)
  /\ pc' = "root_agent"
  /\ UNCHANGED <<environ, google_api_key, exc, SESSION_ID, users_toolset,
                 root_agent, console>>
  /\ UNCHANGED <<setupVars, callVars, historyVars>>

\* Lines 772-798.
CreateRootAgent ==
  /\ pc = "root_agent"
  /\ root_agent' = Some(LlmAgent(users_toolset[1], filesystem_toolset[1]))
  /\ pc' = "main_guard"
  /\ UNCHANGED <<environ, google_api_key, exc, SESSION_ID, users_toolset,
                 filesystem_toolset, console>>
  /\ UNCHANGED <<setupVars, callVars, historyVars>>

\* Lines 866-867: run as a script, or imported as a module (nothing more runs).
MainGuard ==
  /\ pc = "main_guard"
  /\ \E name_is_main \in BOOLEAN :
       IF name_is_main
         THEN /\ console' = Append(console, "Executing Combined OpenAPI + MCP Agent Example...")
              /\ pc' = "asyncio_run"
         ELSE /\ pc' = "imported"
              /\ UNCHANGED console
  /\ UNCHANGED <<environ, exc>>
  /\ UNCHANGED <<moduleVars, setupVars, callVars, historyVars>>

\* Line 869: asyncio.run refuses to start inside a running event loop.
AsyncioRun ==
  /\ pc = "asyncio_run"
  /\ \E loop_running \in BOOLEAN :
       IF loop_running
         THEN /\ exc' = Some([cls |-> "RuntimeError",
                              msg |-> <<"asyncio.run() ", LoopMessage>>])
              /\ pc' = "escaped"
         ELSE /\ pc' = "setup"
              /\ UNCHANGED exc
  /\ UNCHANGED <<environ, console>>
  /\ UNCHANGED <<moduleVars, setupVars, callVars, historyVars>>

(***************************************************************************)
(* run_combined_example and setup_session_and_runner (lines 801-813, 847). *)
(***************************************************************************)
SessionKey == [app_name |-> APP_NAME, user_id |-> USER_ID, session_id |-> SESSION_ID[1]]

CreateSessionMutant(store, key) == store
\* await session_service.create_session(...) (lines 808-812).
CreateSession(store, key) == Append(store, key)

\* Lines 802-808: build the store and the runner, then call create_session
\* and wait for it; the Runner constructor may raise, and nothing catches
\* that before asyncio.run's caller.
SetupSessionAndRunner ==
  /\ pc = "setup"
  /\ session_service' = Some("InMemorySessionService")
  /\ \/ /\ runner' = Some([agent |-> root_agent[1].name, app_name |-> APP_NAME])
        /\ pc' = "create_session_suspended"
        /\ UNCHANGED exc
     \/ /\ \E e \in SetupErrors : exc' = Some(e)
        /\ runner' = None
        /\ pc' = "escaped"
  /\ UNCHANGED <<environ, console, sessions>>
  /\ UNCHANGED <<moduleVars, callVars, historyVars>>

\* Lines 808-813 and 848: create_session completes, the runner is returned
\* and run_combined_example goes on to its first call; or create_session
\* raises.
CreateSessionDone ==
  /\ pc = "create_session_suspended"
  /\ \/ /\ sessions' = CreateSession(sessions, SessionKey)
        /\ pc' = "call"
        /\ i' = 1
        /\ UNCHANGED exc
     \/ /\ \E e \in SetupErrors : exc' = Some(e)
        /\ pc' = "escaped"
        /\ UNCHANGED <<sessions, i>>
  /\ UNCHANGED <<environ, console, session_service, runner, query, content,
                 final_response_text, caught, events, out>>
  /\ UNCHANGED <<moduleVars, historyVars>>

\* Lines 817-821, with the banner run_combined_example prints before the call.
CallBegin ==
  /\ pc = "call"
  /\ console' = console \o Banner(i)
  /\ query' = Some(Prompts[i])
  /\ out' = <<Line("header", <<>>), Line("query", <<Prompts[i]>>)>>
  /\ content' = Some(Content(Prompts[i]))
  /\ final_response_text' = Some(DefaultFinalText)
  /\ pc' = "run_async"
  /\ UNCHANGED <<environ, exc, i, caught, events>>
  /\ UNCHANGED <<moduleVars, setupVars, historyVars>>

\* Lines 824-828: the prompt is handed to the runner.
RunAsync ==
  /\ pc = "run_async"
  /\ submitted' = Append(submitted,
                         [idx |-> i, user_id |-> USER_ID, session_id |-> SESSION_ID[1],
                          new_message |-> content[1]])
  /\ open' = open \cup {i}
  /\ pc' = "events"
  /\ UNCHANGED <<environ, exc, console, raised>>
  /\ UNCHANGED <<moduleVars, setupVars, callVars>>

AfterEventMutant(e) == IF e.final THEN "print_final" ELSE "events"
\* Where the loop goes after an event's body (lines 829-836): there is no
\* break, so back to the stream for the next event.
AfterEvent(e) == "events"

\* The stream of prompt k has finished: it ended, it raised, or it was
\* closed by aclose().
StreamClosed(streams, k) == streams \ {k}

\* Lines 824-836: the stream yields one more event and the loop body runs.
NextEvent ==
  /\ pc = "events"
  /\ Len(events) < MaxEvents
  /\ \E e \in Events :
       /\ events' = Append(events, e)
       /\ IF e.function_calls # <<>>
            THEN /\ out' = Append(out, Line("action", <<e.function_calls[1].name,
                                                        e.function_calls[1].args>>))
                 /\ pc' = AfterEvent(e)
                 /\ UNCHANGED <<final_response_text, caught, open, raised>>
            ELSE IF e.function_responses # <<>>
            THEN /\ out' = Append(out, Line("response", <<e.function_responses[1].name>>))
                 /\ pc' = AfterEvent(e)
                 /\ UNCHANGED <<final_response_text, caught, open, raised>>
            ELSE IF e.final /\ HasParts(e)
            THEN IF e.content[1].parts[1].text = None
                   THEN \* None has no strip(): AttributeError, inside the try.
                        \* The loop is left by its body: the stream is not
                        \* finished, it stays suspended at its yield.
                        /\ caught' = Some(AttributeErrorStrip)
                        /\ raised' = raised \cup {i}
                        /\ pc' = "except"
                        /\ UNCHANGED <<final_response_text, out, open>>
                   ELSE /\ final_response_text' = Some(Strip(e.content[1].parts[1].text[1]))
                        /\ pc' = AfterEvent(e)
                        /\ UNCHANGED <<out, caught, open, raised>>
            ELSE /\ pc' = AfterEvent(e)
                 /\ UNCHANGED <<final_response_text, out, caught, open, raised>>
  /\ UNCHANGED <<environ, exc, console, i, query, content, submitted>>
  /\ UNCHANGED <<moduleVars, setupVars>>

\* A stream that was left unfinished is closed later, if at all, by the
\* aclose() the event loop runs for an abandoned async generator: while the
\* script waits for an event of a later stream, or when asyncio.run shuts
\* down.
AcloseStream ==
  /\ pc \in {"events", "return", "escaped"}
  /\ \E k \in open :
       /\ pc = "events" => k # i
       /\ open' = StreamClosed(open, k)
  /\ UNCHANGED <<environ, exc, console, pc, submitted, raised>>
  /\ UNCHANGED <<moduleVars, setupVars, callVars>>

\* The stream ends: the loop is left normally.
StreamEnd ==
  /\ pc = "events"
  /\ open' = StreamClosed(open, i)
  /\ pc' = "print_final"
  /\ UNCHANGED <<environ, exc, console, submitted, raised>>
  /\ UNCHANGED <<moduleVars, setupVars, callVars>>

\* Line 838.
PrintFinal ==
  /\ pc = "print_final"
  /\ out' = Append(out, Line("final", final_response_text[1]))
  /\ pc' = "separator"
  /\ UNCHANGED <<environ, exc, console, i, query, content, final_response_text,
                 caught, events>>
  /\ UNCHANGED <<moduleVars, setupVars, historyVars>>

\* The stream raises: `except Exception` (line 840) takes an Exception; any
\* other BaseException leaves the call and run_combined_example.
StreamRaise ==
  /\ pc = "events"
  /\ \E e \in StreamErrors :
       IF IsException(e)
         THEN /\ caught' = Some(e)
              /\ raised' = raised \cup {i}
              /\ pc' = "except"
              /\ UNCHANGED exc
         ELSE /\ exc' = Some(e)
              /\ pc' = "escaped"
              /\ UNCHANGED <<caught, raised>>
  /\ open' = StreamClosed(open, i)
  /\ UNCHANGED <<environ, console, i, query, content, final_response_text, events,
                 out, submitted>>
  /\ UNCHANGED <<moduleVars, setupVars>>

AfterExceptRetry == "run_async"
AfterExceptAbort == "return"
AfterExceptPrintFinal == "print_final"
\* Where the handler (lines 840-843) leaves the call: at its last line, 844.
AfterExcept == "separator"

\* Lines 840-843: print the error and the trace.
Except ==
  /\ pc = "except"
  /\ out' = out \o <<Line("error", caught[1].msg), Line("traceback", <<caught[1].cls>>)>>
  /\ pc' = AfterExcept
  /\ UNCHANGED <<environ, exc, console, i, query, content, final_response_text,
                 caught, events>>
  /\ UNCHANGED <<moduleVars, setupVars, historyVars>>

\* Line 844, then the call returns (its locals are gone) and
\* run_combined_example goes on to its next statement.
Separator ==
  /\ pc = "separator"
  /\ out' = Append(out, Line("separator", <<>>))
  /\ query' = None
  /\ content' = None
  /\ final_response_text' = None
  /\ caught' = None
  /\ events' = <<>>
  /\ IF i < NPrompts
       THEN /\ i' = i + 1
            /\ pc' = "call"
       ELSE /\ pc' = "return"
            /\ UNCHANGED i
  /\ UNCHANGED <<environ, exc, console>>
  /\ UNCHANGED <<moduleVars, setupVars, historyVars>>

(***************************************************************************)
(* The __main__ block's handler and last line (lines 868-875).             *)
(***************************************************************************)
ClosingLine == "Combined agent example finished."

\* asyncio.run returned: line 875.
Return ==
  /\ pc = "return"
  /\ console' = Append(console, ClosingLine)
  /\ pc' = "done"
  /\ UNCHANGED <<environ, exc>>
  /\ UNCHANGED <<moduleVars, setupVars, callVars, historyVars>>

\* An exception came out of asyncio.run (lines 870-874): a RuntimeError is
\* bound to `e`; the running-loop one is reported and the script goes on to
\* line 875; anything else leaves the script.
MainExcept ==
  /\ pc = "escaped"
  /\ caught' = IF exc[1].cls = "RuntimeError" THEN exc ELSE caught
  /\ IF IsLoopError(exc[1])
       THEN /\ console' = console \o
                 <<"Cannot run asyncio.run from a running event loop (e.g., Jupyter/Colab).",
                   ClosingLine>>
            /\ exc' = None
            /\ pc' = "done"
       ELSE /\ pc' = "raised"
            /\ UNCHANGED <<exc, console>>
  /\ UNCHANGED <<environ, i, query, content, final_response_text, events, out>>
  /\ UNCHANGED <<moduleVars, setupVars, historyVars>>

Next ==
  \/ LoadDotenv
  \/ CheckKey
  \/ DeclareConstants
  \/ CreateUsersToolset
  \/ CreateFilesystemToolset
  \/ CreateRootAgent
  \/ MainGuard
  \/ AsyncioRun
  \/ SetupSessionAndRunner
  \/ CreateSessionDone
  \/ CallBegin
  \/ RunAsync
  \/ NextEvent
  \/ AcloseStream
  \/ StreamEnd
  \/ PrintFinal
  \/ StreamRaise
  \/ Except
  \/ Separator
  \/ Return
  \/ MainExcept

Spec == Init /\ [][Next]_vars

(***************************************************************************)
(* Properties.                                                             *)
(***************************************************************************)
Constructed ==
  \/ users_toolset # None
  \/ filesystem_toolset # None
  \/ root_agent # None
  \/ session_service # None
  \/ sessions # <<>>
  \/ runner # None

\* C1: when GOOGLE_API_KEY is unset or empty once the environment file is
\* loaded, the script is at the guard or has failed there with the
\* ValueError and its message, and no toolset, agent, session store,
\* runner or session exists and no prompt has been submitted.
C1_MissingKeyFailsFirst ==
  (pc # "load_dotenv" /\ (environ = None \/ environ = Some("")))
    => /\ pc \in {"check_key", "raised"}
       /\ pc = "raised" =>
            /\ exc # None
            /\ exc[1].cls = "ValueError"
            /\ exc[1].msg # <<>>
       /\ ~Constructed
       /\ submitted = <<>>
       /\ open = {}

C1_Witness ==
  /\ pc = "raised"
  /\ environ = Some("")
  /\ exc = Some(ValueErrorNoKey)
  /\ ~Constructed

SubmittedIdx == {submitted[n].idx : n \in DOMAIN submitted}

\* C2: if processing prompt k raised an Exception, every later prompt is
\* submitted: a later prompt is missing only while the loop has not reached
\* it yet, or when something other than an Exception left the loop.
C2_ExceptionDoesNotAbort ==
  \A k \in raised : \A j \in (k + 1)..NPrompts :
    \/ j \in SubmittedIdx
    \/ /\ pc \notin {"return", "done", "raised", "escaped", "imported"}
       /\ i <= j
    \/ exc # None

C2_Witness ==
  /\ pc = "return"
  /\ 1 \in raised
  /\ 3 \in raised
  /\ SubmittedIdx = 1..6

\* C3: at most one event stream is open at any moment, the prompts are
\* submitted in list order, and when a prompt has been submitted the stream
\* of every earlier prompt has ended or raised.
C3_Sequential ==
  /\ Cardinality(open) <= 1
  /\ open \subseteq {Len(submitted)}
  /\ \A n \in DOMAIN submitted :
       /\ submitted[n].idx = n
       /\ submitted[n].new_message.parts[1].text = Prompts[n]

\* C4 as stated: a complete run of the demo loop has submitted seven prompts.
C4_SevenPrompts ==
  pc = "return" => Len(submitted) = 7

\* C4, amended: a complete run of the demo loop has submitted exactly six
\* prompts, the six literal strings of run_combined_example, one submission
\* for each.
C4_SixPrompts ==
  pc = "return" =>
    /\ Len(submitted) = 6
    /\ \A k \in 1..6 :
         Cardinality({n \in DOMAIN submitted :
                        submitted[n].new_message.parts[1].text = Prompts[k]}) = 1

C4_Witness ==
  /\ pc = "return"
  /\ Len(submitted) = 6
  /\ raised = {}

\* C5: every message handed to runner.run_async has role 'user' and exactly
\* one part, whose text is the query given to call_combined_agent_async.
C5_PromptUnmodified ==
  /\ \A n \in DOMAIN submitted :
       /\ submitted[n].new_message.role = "user"
       /\ Len(submitted[n].new_message.parts) = 1
       /\ submitted[n].new_message.parts[1].text = Prompts[submitted[n].idx]
  /\ (pc \in {"events", "print_final", "except", "separator"}) =>
       submitted[Len(submitted)].new_message =
         [role |-> "user", parts |-> <<[text |-> query[1]]>>]

C5_Witness ==
  /\ pc = "events"
  /\ Len(submitted) = 3
  /\ query = Some("Get details for pet ID 456")
  /\ submitted[3].new_message.parts[1].text = "Get details for pet ID 456"

\* C6: no prompt is submitted to the runner more than once, whether or not
\* its processing raised.
C6_NoRetry ==
  \A m, n \in DOMAIN submitted :
    submitted[m].idx = submitted[n].idx => m = n

C6_Witness ==
  /\ pc = "separator"
  /\ i = 2
  /\ raised = {1, 2}
  /\ Cardinality({n \in DOMAIN submitted : submitted[n].idx = 2}) = 1

\* The $ref values of a document that name no schema of its components.
UnresolvedRefs(doc) == {r \in AllRefs(doc) : ~Resolves(doc, r)}

EmbeddedUnresolved == UnresolvedRefs(openapi_spec_string)

\* C7: every $ref in the document the OpenAPI toolset is built from, in
\* paths and in component schemas, names a schema under components/schemas.
C7_RefsResolve ==
  users_toolset # None =>
    /\ users_toolset[1].spec_str = "openapi_spec_string"
    /\ EmbeddedUnresolved = {}

C7_Witness ==
  /\ users_toolset # None
  /\ Cardinality(AllRefs(StringNamed(users_toolset[1].spec_str))) = 16
  /\ Ref("Support") \in AllRefs(StringNamed(users_toolset[1].spec_str))

\* C8: once the agent exists both toolsets exist, and its tools are exactly
\* these two: the OpenAPI toolset built from the embedded document and the
\* MCP toolset that launches the filesystem server.
C8_AgentHasBothToolsets ==
  root_agent # None =>
    /\ users_toolset # None
    /\ filesystem_toolset # None
    /\ Len(root_agent[1].tools) = 2
    /\ root_agent[1].tools[1] = users_toolset[1]
    /\ root_agent[1].tools[2] = filesystem_toolset[1]
    /\ root_agent[1].tools[1].toolset = "OpenAPIToolset"
    /\ root_agent[1].tools[1].spec_str = "openapi_spec_string"
    /\ root_agent[1].tools[2].command = "npx"

C8_Witness ==
  /\ pc = "main_guard"
  /\ root_agent # None
  /\ Len(root_agent[1].tools) = 2

\* C9: at most one session is ever created; once a prompt has been
\* submitted exactly one exists, created with the module's SESSION_ID, and
\* every submission carries that session's user id and session id.
C9_OneSession ==
  /\ Len(sessions) <= 1
  /\ sessions # <<>> =>
       /\ SESSION_ID = Some(sessions[1].session_id)
       /\ sessions[1].user_id = USER_ID
       /\ sessions[1].app_name = APP_NAME
  /\ submitted # <<>> =>
       /\ Len(sessions) = 1
       /\ \A n \in DOMAIN submitted :
            /\ submitted[n].user_id = sessions[1].user_id
            /\ submitted[n].session_id = sessions[1].session_id

C9_Witness ==
  /\ Len(submitted) = 6
  /\ Len(sessions) = 1
  /\ submitted[1].session_id = "session_combined_u2"
  /\ submitted[6].session_id = "session_combined_u2"

\* The lines of kind k among the lines printed by the current call.
LinesOf(k) == {n \in DOMAIN out : out[n].kind = k}

\* The events that set the final text: no function calls, no function
\* responses, a final response, and content with at least one part.
Qualifies(e) ==
  /\ e.function_calls = <<>>
  /\ e.function_responses = <<>>
  /\ e.final
  /\ e.content # None
  /\ e.content[1].parts # <<>>

\* C10 as stated: once a final-response event has been received for a
\* prompt, no further event of that prompt is processed, so no event but
\* the last one taken is a final response.
C10_StopsAtFinal ==
  \A k \in 1..(Len(events) - 1) : ~events[k].final

\* The body of the loop raises on event e: e sets the final text and the
\* text of its first part is None.
BodyRaises(e) == Qualifies(e) /\ e.content[1].parts[1].text = None

\* The events taken so far that carry function calls or function responses.
ToolEvents ==
  {k \in DOMAIN events :
     events[k].function_calls # <<>> \/ events[k].function_responses # <<>>}

\* The loop over the stream of the current prompt has been left and the call
\* has not returned yet.
LoopLeft == pc \in {"print_final", "except", "separator"}

\* C10, amended: the loop over the stream is left only when the stream ends,
\* when the stream raises, or when the body raises on the event just taken
\* (a final response without tool data whose first part has text None), the
\* one case that leaves the stream open; a final-response event processed
\* without error does not end the loop, every event taken is processed and
\* an event with tool data prints its line, and the final-response line is
\* printed only after the stream has ended.
C10_ConsumesUntilStreamEnds ==
  /\ (pc = "print_final" \/ LinesOf("final") # {}) => i \notin open
  /\ (LoopLeft /\ i \in open) =>
       /\ events # <<>>
       /\ BodyRaises(events[Len(events)])
       /\ caught = Some(AttributeErrorStrip)
       /\ i \in raised
  /\ \A k \in 1..(Len(events) - 1) : ~BodyRaises(events[k])
  /\ (pc = "events" \/ LoopLeft) =>
       Cardinality(LinesOf("action") \cup LinesOf("response"))
         = Cardinality(ToolEvents)

C10_Witness ==
  /\ i = 2
  /\ 1 \in open
  /\ 1 \in raised
  /\ pc = "separator"
  /\ Len(events) = 2
  /\ events[1].final
  /\ events[1].function_calls = <<>>
  /\ events[2].function_calls # <<>>
  /\ out[3].kind = "action"
  /\ out[4].kind = "final"

\* The call that printed `out` is over: it returned, or an exception left it.
CallOver ==
  /\ out # <<>>
  /\ pc \notin {"run_async", "events", "print_final", "except", "separator"}

\* The prompt whose call printed `out`.
OutPrompt == CHOOSE k \in 1..NPrompts : out[2].arg = <<Prompts[k]>>

\* Header and query first, then tool lines only, then the final-response
\* line alone, and the separator last.
EndsWithFinal ==
  /\ Len(out) >= 4
  /\ out[1].kind = "header"
  /\ out[2].kind = "query"
  /\ out[Len(out)].kind = "separator"
  /\ out[Len(out) - 1].kind = "final"
  /\ \A n \in 3..(Len(out) - 2) : out[n].kind \in {"action", "response"}

\* The same with the error line and its trace in place of the final line.
EndsWithError ==
  /\ Len(out) >= 5
  /\ out[1].kind = "header"
  /\ out[2].kind = "query"
  /\ out[Len(out)].kind = "separator"
  /\ out[Len(out) - 2].kind = "error"
  /\ out[Len(out) - 1].kind = "traceback"
  /\ \A n \in 3..(Len(out) - 3) : out[n].kind \in {"action", "response"}

\* C11 as stated: for every prompt whose call is over, the output is the
\* query header, then tool lines, then either the final-response line or
\* the error line with its trace (one of them, not both), then the
\* separator.
C11_FinalOrErrorAlways ==
  CallOver =>
    /\ EndsWithFinal \/ EndsWithError
    /\ ~(EndsWithFinal /\ EndsWithError)

\* C11, amended: the same for every call that returned, with the final line
\* exactly when the prompt's processing raised no Exception; a call left by
\* an exception that is not an Exception (KeyboardInterrupt) has printed
\* neither line and no separator.
C11_FinalOrErrorOnReturn ==
  CallOver =>
    IF pc \in {"escaped", "raised"}
      THEN /\ exc # None
           /\ exc[1].cls \notin {"Exception", "AttributeError", "RuntimeError", "ValueError"}
           /\ LinesOf("final") = {}
           /\ LinesOf("error") = {}
           /\ LinesOf("separator") = {}
      ELSE /\ EndsWithFinal \/ EndsWithError
           /\ EndsWithFinal <=> OutPrompt \notin raised
           /\ EndsWithError <=> OutPrompt \in raised
           /\ Cardinality(LinesOf("final")) + Cardinality(LinesOf("error")) = 1

C11_Witness ==
  /\ pc = "call"
  /\ i = 3
  /\ raised = {2}
  /\ EndsWithError
  /\ Len(out) = 6
  /\ out[3].kind = "action"

Qualifying == {k \in DOMAIN events : Qualifies(events[k])}

LastQualifying == CHOOSE k \in Qualifying : \A m \in Qualifying : m <= k

\* r is t without its leading and trailing whitespace.
IsStripped(r, t) ==
  /\ r # <<>> => (r[1] \notin Whitespace /\ r[Len(r)] \notin Whitespace)
  /\ \E a \in 0..Len(t) : \E b \in a..Len(t) :
       /\ r = SubSeq(t, a + 1, b)
       /\ \A n \in (1..a) \cup ((b + 1)..Len(t)) : t[n] \in Whitespace

\* What the claim says is printed for the events taken so far.
ExpectedFinal(r) ==
  IF Qualifying = {}
    THEN r = <<"A", "g", "e", "n", "t", " ", "d", "i", "d", " ", "n", "o", "t", " ",
               "p", "r", "o", "v", "i", "d", "e", " ", "a", " ", "f", "i", "n", "a",
               "l", " ", "t", "e", "x", "t", " ", "r", "e", "s", "p", "o", "n", "s",
               "e", ".">>
    ELSE IsStripped(r, events[LastQualifying].content[1].parts[1].text[1])

\* C12: when the stream of a prompt has ended without an exception, the
\* final text, and the final-response line printed from it, is the stripped
\* text of the first part of the last qualifying event taken, or the
\* placeholder when no event qualifies; events with function calls or
\* function responses do not count, final or not.
C12_FinalTextIsLastQualifying ==
  /\ pc = "print_final" => ExpectedFinal(final_response_text[1])
  /\ (pc = "separator" /\ out[Len(out)].kind = "final") =>
       ExpectedFinal(out[Len(out)].arg)

C12_Witness ==
  /\ pc = "separator"
  /\ Len(events) = 2
  /\ Qualifies(events[1])
  /\ events[1].content[1].parts[1].text = Some(<<"b">>)
  /\ Qualifies(events[2])
  /\ events[2].content[1].parts[1].text = Some(<<"\f", "a", " ">>)
  /\ out[Len(out)] = [kind |-> "final", arg |-> <<"a">>]

ClosingPrinted == \E n \in DOMAIN console : console[n] = "Combined agent example finished."

\* C13: the closing line is printed exactly in the runs that end after the
\* demo loop returned normally or after the handler took a RuntimeError
\* whose message contains the running-loop text; a run ended by any other
\* exception out of asyncio.run keeps that exception, has not printed the
\* closing line, and has submitted no prompt after the point of the raise.
C13_ClosingLine ==
  /\ ClosingPrinted <=> pc = "done"
  /\ pc = "done" =>
       \/ /\ caught = None
          /\ exc = None
          /\ SubmittedIdx = 1..6
       \/ /\ caught # None
          /\ caught[1].cls = "RuntimeError"
          /\ \E n \in DOMAIN caught[1].msg :
               caught[1].msg[n] = "cannot be called from a running event loop"
  /\ (pc = "raised" /\ root_agent # None) =>
       /\ exc # None
       /\ ~(/\ exc[1].cls = "RuntimeError"
            /\ \E n \in DOMAIN exc[1].msg :
                 exc[1].msg[n] = "cannot be called from a running event loop")
       /\ ~ClosingPrinted
       /\ SubmittedIdx = 1..i

C13_Witness ==
  /\ pc = "raised"
  /\ exc = Some([cls |-> "RuntimeError", msg |-> <<"Event loop is closed">>])
  /\ sessions = <<>>
  /\ submitted = <<>>
  /\ ~ClosingPrinted

====
